---- MODULE Spec2Model ----
(***************************************************************************)
(* Disposable secret sharing service (src/main.py).                        *)
(*                                                                         *)
(* The store is the two MongoDB collections; every request handler is a    *)
(* coroutine whose awaits (one store operation each) are the points where  *)
(* other handlers interleave.  One step of a handler is: the awaited store *)
(* operation executes atomically, then the handler's local code runs up to *)
(* its next await.                                                         *)
(***************************************************************************)
EXTENDS Integers, Sequences, FiniteSets, TLC

\* ------------------------------------------------------------------ bounds
NumProcs == 2          \* concurrent request handlers
NumIds == 2            \* size of the id space generate_secret_id draws from
MaxTime == 2           \* the clock runs 0..MaxTime
MaxRequests == 3       \* requests served in one run
MaxCreates == 2        \* documents built by create_secret in one run
MaxContentLen == 1     \* longest content (the code allows 10000)
MaxTtl == 1            \* longest ttl_hours (the code allows 168)
MaxAttempts == 3       \* turns of the id loop that are counted
NumKeys == 2           \* keys ChaCha20Poly1305.generate_key draws from
NumInsts == 2          \* server instances sharing the store
MaxBoots == 2          \* runs of startup_event in one run

\* ------------------------------------------------------- program constants
MinContentLen == 1     \* SecretCreate.content min_length
MinTtl == 1            \* SecretCreate.ttl_hours ge
ByteMod == 4           \* a byte holds 0..ByteMod-1 (two binary digits)
Key == 3               \* the key SECRET_ENCRYPTION_KEY supplies

Procs == 1..NumProcs
Ids == 1..NumIds
Chars == 0..1
Nonces == {1}
Keys == (Key - NumKeys + 1)..Key
Insts == 1..NumInsts

\* Optional[str] access_password: None, or a string (sequence of characters)
None == <<-1>>
Passwords == {<<>>, <<0>>, <<1>>}
CreatePasswords == {<<>>, <<0>>}   \* passwords given to create_secret
NoHash == -1           \* secret_doc.get("password_hash") of a doc without one

RECURSIVE SeqsUpTo(_, _)
SeqsUpTo(S, n) ==
    IF n = 0 THEN {<<>>}
    ELSE LET shorter == SeqsUpTo(S, n - 1)
         IN  shorter \cup {Append(s, c) : s \in {t \in shorter : Len(t) = n - 1}, c \in S}

\* contents the request validation accepts (min_length..max_length)
Contents == {s \in SeqsUpTo(Chars, MaxContentLen) : Len(s) >= MinContentLen}
Ttls == MinTtl..MaxTtl

\* ----------------------------------------------------------- pure helpers
RECURSIVE SumSeq(_)
SumSeq(s) == IF s = <<>> THEN 0 ELSE Head(s) + SumSeq(Tail(s))

\* base64.b64encode(..).decode(): every byte becomes two binary digits
RECURSIVE B64Encode(_)
B64Encode(bytes) ==
    IF bytes = <<>> THEN <<>>
    ELSE <<Head(bytes) \div 2, Head(bytes) % 2>> \o B64Encode(Tail(bytes))

\* base64.b64decode: digits regrouped two by two into bytes
RECURSIVE B64Decode(_)
B64Decode(digits) ==
    IF Len(digits) < 2 THEN <<>>
    ELSE <<2 * digits[1] + digits[2]>> \o B64Decode(Tail(Tail(digits)))

\* hashlib.sha256(password.encode()).hexdigest(): deterministic digest,
\* collision free on the passwords of the model
RECURSIVE Digest(_, _)
Digest(h, s) == IF s = <<>> THEN h ELSE Digest((h * 31 + Head(s) + 1) % 257, Tail(s))

\* a digest that depends on the length of the password only
hash_password_weak(password) == Len(password)

hash_password(password) == Digest(7, password)

\* ChaCha20 keystream byte i under (key, nonce)
KeyStream(k, nonce, i) == (k + 2 * nonce + i) % ByteMod

\* Poly1305 tag over the ciphertext under (key, nonce)
Tag(k, nonce, ct) == (k + nonce + SumSeq(ct) + Len(ct)) % ByteMod

\* chacha.encrypt(nonce, data, None): ciphertext followed by the tag
ChaChaEncrypt(k, nonce, data) ==
    LET ct == [i \in 1..Len(data) |-> (data[i] + KeyStream(k, nonce, i)) % ByteMod]
    IN  Append(ct, Tag(k, nonce, ct))

DecryptFailed == <<-2>>   \* chacha.decrypt raising InvalidTag

\* chacha.decrypt(nonce, data, None): tag verified, then the plaintext
ChaChaDecrypt(k, nonce, data) ==
    IF Len(data) < 1 THEN DecryptFailed
    ELSE LET ct == SubSeq(data, 1, Len(data) - 1)
         IN  IF data[Len(data)] # Tag(k, nonce, ct) THEN DecryptFailed
             ELSE [i \in 1..Len(ct) |-> (ct[i] - KeyStream(k, nonce, i)) % ByteMod]

\* ------------------------------------------------------------------ state
VARIABLES
    secrets,        \* secrets_collection: set of documents
    stats,          \* stats_collection: set of documents
    now,            \* datetime.utcnow()
    h,              \* per handler: its position and local variables
    serials,        \* history: documents built so far
    plain,          \* history: serial -> content and password the secret was created with
    delivered,      \* history: serial -> get_secret calls that returned it
    requests,       \* history: requests received so far
    createdOk,      \* history: create_secret calls that returned
    viewedOk,       \* history: get_secret calls that returned content
    key,            \* the key chacha was built with at process start
    boot,           \* per instance: the position of its startup_event
    boots           \* history: runs of startup_event so far

vars == <<secrets, stats, now, h, serials, plain, delivered, requests, createdOk,
          viewedOk, key, boot, boots>>

NoDoc == [secret_id |-> 0]

Idle ==
    [pc |-> "idle", op |-> "none", secret_id |-> 0, access_password |-> None,
     current_time |-> 0, secret_doc |-> NoDoc, status |-> "none",
     content |-> <<>>, ret |-> 0, seen |-> {}, late |-> FALSE, attempts |-> 0]

Init ==
    /\ secrets = {}
    /\ stats = {[id |-> "global", total_created |-> 0, total_viewed |-> 0]}
    /\ now = 0
    /\ h = [p \in Procs |-> Idle]
    /\ serials = 0
    /\ plain = <<>>
    /\ delivered = <<>>
    /\ requests = 0
    /\ createdOk = 0
    /\ viewedOk = 0
    /\ key = Key
    /\ boot = [i \in Insts |-> "up"]
    /\ boots = 0

history == <<serials, plain, delivered, requests, createdOk, viewedOk>>

\* the process and its deployment, which no request handler changes
env == <<key, boot, boots>>

\* encrypt_content: (base64 ciphertext, base64 nonce); the nonce is os.urandom
encrypt_content(content, nonce) ==
    <<B64Encode(ChaChaEncrypt(key, nonce, content)), B64Encode(<<nonce>>)>>

\* decrypt_content
decrypt_content(encrypted_content_b64, nonce_b64) ==
    LET encrypted_content == B64Decode(encrypted_content_b64)
        nonce == B64Decode(nonce_b64)
    IN  ChaChaDecrypt(key, nonce[1], encrypted_content)

\* handler p has no request in progress
Quiet(p) == h[p].pc \in {"idle", "done"}

\* handler p takes the next request: the handlers are interchangeable, so
\* the request goes to the first one that has none in progress
Free(p) ==
    /\ Quiet(p)
    /\ \A q \in Procs : q < p => ~Quiet(q)
    /\ requests < MaxRequests
    /\ \E i \in Insts : boot[i] = "up"

\* ------------------------------------------------------- store operations
\* secrets_collection.find_one({"secret_id": id})
find_one(id) ==
    IF \E d \in secrets : d.secret_id = id
    THEN CHOOSE d \in secrets : d.secret_id = id
    ELSE NoDoc

\* the filter left out
delete_many_all(current_time) == {}

\* the filter written with $lte
delete_many_lte(current_time) == {d \in secrets : ~(d.expires_at <= current_time)}

\* secrets_collection.delete_many({"expires_at": {"$lt": current_time}})
delete_many(current_time) == {d \in secrets : ~(d.expires_at < current_time)}

\* the update matching no document
set_viewed_lost(id) == secrets

\* secrets_collection.update_one({"secret_id": id}, {"$set": {"viewed": True}})
set_viewed(id) ==
    {IF d.secret_id = id THEN [d EXCEPT !.viewed = TRUE] ELSE d : d \in secrets}

\* the increment left out
inc_created_lost == stats

\* stats_collection.update_one({"_id": "global"}, {"$inc": {field: 1}})
inc_created ==
    {IF s.id = "global" THEN [s EXCEPT !.total_created = @ + 1] ELSE s : s \in stats}

inc_viewed ==
    {IF s.id = "global" THEN [s EXCEPT !.total_viewed = @ + 1] ELSE s : s \in stats}

\* the document's expires_at has passed
Expired(doc) == doc # NoDoc /\ doc.expires_at < now

\* the clock advances
Tick ==
    /\ now < MaxTime
    /\ now' = now + 1
    /\ UNCHANGED <<secrets, stats, h, history, env>>

\* MongoDB's TTL monitor on the expires_at index (expireAfterSeconds=0): at
\* any moment it may remove the documents whose expires_at is now or earlier
TTLMonitor ==
    /\ \E d \in secrets : d.expires_at <= now
    /\ secrets' = {d \in secrets : ~(d.expires_at <= now)}
    /\ UNCHANGED <<stats, now, env, h, history>>

\* ---------------------------------------------------------- create_secret
\* the document create_secret builds once its id passed the lookup; serial
\* is a history field that tells the secrets apart when an id is used again
NewDoc(id, content, ttl_hours, password_protected, access_password, nonce) ==
    LET enc == encrypt_content(content, nonce)
    IN  [secret_id |-> id,
         encrypted_content |-> enc[1],
         nonce |-> enc[2],
         created_at |-> now,
         expires_at |-> now + ttl_hours,
         viewed |-> FALSE,
         password_protected |-> password_protected,
         password_hash |->
             IF password_protected /\ access_password # None /\ access_password # <<>>
             THEN hash_password(access_password) ELSE NoHash,
         serial |-> serials + 1]

Min(a, b) == IF a < b THEN a ELSE b

\* one turn of the id loop: generate_secret_id, find_one, and on a free id
\* the rest of the local code up to the insert
CreateCheckId(p) ==
    /\ \/ Free(p) /\ serials < MaxCreates
       \/ h[p].pc = "c_find"
    /\ requests' = IF h[p].pc = "c_find" THEN requests ELSE requests + 1
    /\ \E id \in Ids :
         IF find_one(id) # NoDoc
         THEN /\ h' = [h EXCEPT ![p] =
                        [Idle EXCEPT !.pc = "c_find", !.op = "create",
                                     !.attempts = IF h[p].pc = "c_find"
                                                  THEN Min(h[p].attempts + 1, MaxAttempts)
                                                  ELSE 1]]
              /\ UNCHANGED <<serials, plain, delivered, createdOk, viewedOk>>
         ELSE \E content \in Contents, ttl_hours \in Ttls, password_protected \in BOOLEAN,
                 access_password \in CreatePasswords \cup {None}, nonce \in Nonces :
                /\ h' = [h EXCEPT ![p] =
                          [Idle EXCEPT !.pc = "c_insert", !.op = "create",
                                       !.secret_id = id,
                                       !.secret_doc = NewDoc(id, content, ttl_hours,
                                           password_protected, access_password, nonce)]]
                /\ serials' = serials + 1
                /\ plain' = Append(plain,
                       [content |-> content,
                        password |-> IF password_protected /\ access_password # <<>>
                                     THEN access_password ELSE None])
                /\ delivered' = Append(delivered, 0)
                /\ UNCHANGED <<createdOk, viewedOk>>
    /\ UNCHANGED <<secrets, stats, now, env>>

\* insert_one with no unique index on secret_id
CreateInsertNoIndex(p) ==
    /\ h[p].pc = "c_insert"
    /\ secrets' = secrets \cup {h[p].secret_doc}
    /\ h' = [h EXCEPT ![p].pc = "c_stats"]
    /\ UNCHANGED <<stats, now, env, history>>

\* secrets_collection.insert_one under the unique index on secret_id
CreateInsert(p) ==
    /\ h[p].pc = "c_insert"
    /\ IF \E d \in secrets : d.secret_id = h[p].secret_id
       THEN /\ h' = [h EXCEPT ![p].pc = "done", ![p].status = "DuplicateKey"]
            /\ UNCHANGED secrets
       ELSE /\ secrets' = secrets \cup {h[p].secret_doc}
            /\ h' = [h EXCEPT ![p].pc = "c_stats"]
    /\ UNCHANGED <<stats, now, env, history>>

\* the total_created increment, then the response
CreateStats(p) ==
    /\ h[p].pc = "c_stats"
    /\ stats' = inc_created
    /\ h' = [h EXCEPT ![p].pc = "done", ![p].status = "Created"]
    /\ createdOk' = createdOk + 1
    /\ UNCHANGED <<secrets, now, env, serials, plain, delivered, requests, viewedOk>>

\* ------------------------------------------------- cleanup_expired_secrets
\* current_time = datetime.utcnow(), read before the delete is awaited
CleanupStart(p, op, id, access_password) ==
    /\ Free(p)
    /\ h' = [h EXCEPT ![p] =
              [Idle EXCEPT !.pc = "cleanup", !.op = op, !.secret_id = id,
                           !.access_password = access_password,
                           !.current_time = now,
                           !.seen = IF op = "retrieve"
                                    THEN {s \in 1..serials : delivered[s] > 0}
                                    ELSE {}]]
    /\ requests' = requests + 1
    /\ UNCHANGED <<secrets, stats, now, env, serials, plain, delivered, createdOk, viewedOk>>

\* the delete_many of cleanup_expired_secrets, and where each caller goes next
CleanupDelete(p) ==
    /\ h[p].pc = "cleanup"
    /\ secrets' = delete_many(h[p].current_time)
    /\ h' = [h EXCEPT ![p].ret = IF h[p].op = "cleanup"
                                 THEN Cardinality(secrets) - Cardinality(secrets')
                                 ELSE 0,
                      ![p].current_time = 0,
                      ![p].pc = CASE h[p].op = "retrieve" -> "r_find"
                                  [] h[p].op = "stats" -> "s_find"
                                  [] OTHER -> "done",
                      ![p].status = IF h[p].op = "cleanup" THEN "Swept" ELSE "none"]
    /\ UNCHANGED <<stats, now, env, history>>

\* ------------------------------------------------------------- get_secret
RetrieveStart(p) ==
    \E id \in Ids, access_password \in Passwords \cup {None} :
        CleanupStart(p, "retrieve", id, access_password)

\* the password checks made before the viewed check
RetrieveCheckPasswordFirst(doc, access_password) ==
    IF doc = NoDoc THEN "NotFound"
    ELSE IF doc.password_protected /\ (access_password = None \/ access_password = <<>>)
         THEN "PasswordRequired"
    ELSE IF doc.password_protected /\ hash_password(access_password) # doc.password_hash
         THEN "InvalidPassword"
    ELSE IF doc.viewed THEN "AlreadyViewed"
    ELSE IF decrypt_content(doc.encrypted_content, doc.nonce) = DecryptFailed
         THEN "DecryptFailed"
    ELSE "pass"

\* the hash compared only when the document has one
RetrieveCheckOpenWithoutHash(doc, access_password) ==
    IF doc = NoDoc THEN "NotFound"
    ELSE IF doc.viewed THEN "AlreadyViewed"
    ELSE IF doc.password_protected /\ (access_password = None \/ access_password = <<>>)
         THEN "PasswordRequired"
    ELSE IF doc.password_protected /\ doc.password_hash # NoHash
            /\ hash_password(access_password) # doc.password_hash
         THEN "InvalidPassword"
    ELSE IF decrypt_content(doc.encrypted_content, doc.nonce) = DecryptFailed
         THEN "DecryptFailed"
    ELSE "pass"

\* the outcome of the checks get_secret makes on the document it looked up
RetrieveCheck(doc, access_password) ==
    IF doc = NoDoc THEN "NotFound"
    ELSE IF doc.viewed THEN "AlreadyViewed"
    ELSE IF doc.password_protected /\ (access_password = None \/ access_password = <<>>)
         THEN "PasswordRequired"
    ELSE IF doc.password_protected /\ hash_password(access_password) # doc.password_hash
         THEN "InvalidPassword"
    ELSE IF decrypt_content(doc.encrypted_content, doc.nonce) = DecryptFailed
         THEN "DecryptFailed"
    ELSE "pass"

\* get_secret marking the document viewed before it checks the password
RetrieveFindBurns(p) ==
    /\ h[p].pc = "r_find"
    /\ LET doc == find_one(h[p].secret_id)
           outcome == RetrieveCheck(doc, h[p].access_password)
       IN  /\ IF outcome # "pass"
              THEN h' = [h EXCEPT ![p].pc = "done", ![p].status = outcome,
                                  ![p].secret_doc = doc, ![p].late = Expired(doc)]
              ELSE h' = [h EXCEPT ![p].pc = "r_update", ![p].secret_doc = doc,
                                  ![p].late = Expired(doc),
                                  ![p].content =
                                      decrypt_content(doc.encrypted_content, doc.nonce)]
           /\ secrets' = IF outcome \in {"PasswordRequired", "InvalidPassword"}
                         THEN {IF d.secret_id = h[p].secret_id
                               THEN [d EXCEPT !.viewed = TRUE] ELSE d : d \in secrets}
                         ELSE secrets
    /\ UNCHANGED <<stats, now, env, history>>

\* get_secret marking the document viewed before it decrypts
RetrieveFindMarksFirst(p) ==
    /\ h[p].pc = "r_find"
    /\ LET doc == find_one(h[p].secret_id)
           outcome == RetrieveCheck(doc, h[p].access_password)
       IN  /\ IF outcome # "pass"
              THEN h' = [h EXCEPT ![p].pc = "done", ![p].status = outcome,
                                  ![p].secret_doc = doc, ![p].late = Expired(doc)]
              ELSE h' = [h EXCEPT ![p].pc = "r_update", ![p].secret_doc = doc,
                                  ![p].late = Expired(doc),
                                  ![p].content =
                                      decrypt_content(doc.encrypted_content, doc.nonce)]
           /\ secrets' = IF outcome = "DecryptFailed"
                         THEN set_viewed(h[p].secret_id)
                         ELSE secrets
    /\ UNCHANGED <<stats, now, env, history>>

\* find_one, the checks and the decryption
RetrieveFind(p) ==
    /\ h[p].pc = "r_find"
    /\ LET doc == find_one(h[p].secret_id)
           outcome == RetrieveCheck(doc, h[p].access_password)
       IN  IF outcome # "pass"
           THEN h' = [h EXCEPT ![p].pc = "done", ![p].status = outcome,
                               ![p].secret_doc = doc, ![p].late = Expired(doc)]
           ELSE h' = [h EXCEPT ![p].pc = "r_update", ![p].secret_doc = doc,
                               ![p].late = Expired(doc),
                               ![p].content =
                                   decrypt_content(doc.encrypted_content, doc.nonce)]
    /\ UNCHANGED <<secrets, stats, now, env, history>>

\* update_one setting viewed
RetrieveUpdate(p) ==
    /\ h[p].pc = "r_update"
    /\ secrets' = set_viewed(h[p].secret_id)
    /\ h' = [h EXCEPT ![p].pc = "r_stats"]
    /\ UNCHANGED <<stats, now, env, history>>

\* the total_viewed increment, then the response with the content
RetrieveStats(p) ==
    /\ h[p].pc = "r_stats"
    /\ stats' = inc_viewed
    /\ h' = [h EXCEPT ![p].pc = "done", ![p].status = "OK"]
    /\ delivered' = [delivered EXCEPT ![h[p].secret_doc.serial] = @ + 1]
    /\ viewedOk' = viewedOk + 1
    /\ UNCHANGED <<secrets, now, env, serials, plain, requests, createdOk>>

\* -------------------------------------------------------- get_secret_info
\* get_secret_info marking the document it reads as viewed
InfoFindConsumes(p) ==
    /\ Free(p)
    /\ requests' = requests + 1
    /\ \E id \in Ids :
         LET doc == find_one(id)
         IN  /\ h' = [h EXCEPT ![p] =
                       [Idle EXCEPT !.pc = "done", !.op = "info", !.secret_id = id,
                                    !.late = Expired(doc), !.secret_doc = doc,
                                    !.status = IF doc = NoDoc THEN "NotFound" ELSE "Info"]]
             /\ secrets' = {IF d.secret_id = id THEN [d EXCEPT !.viewed = TRUE] ELSE d :
                              d \in secrets}
    /\ UNCHANGED <<stats, now, env, serials, plain, delivered, createdOk, viewedOk>>

\* find_one with the metadata projection, then the response
InfoFind(p) ==
    /\ Free(p)
    /\ requests' = requests + 1
    /\ \E id \in Ids :
         LET doc == find_one(id)
         IN  h' = [h EXCEPT ![p] =
                    [Idle EXCEPT !.pc = "done", !.op = "info", !.secret_id = id,
                                 !.late = Expired(doc), !.secret_doc = doc,
                                 !.status = IF doc = NoDoc THEN "NotFound" ELSE "Info"]]
    /\ UNCHANGED <<secrets, stats, now, env, serials, plain, delivered, createdOk, viewedOk>>

\* -------------------------------------------------------------- get_stats
StatsStart(p) == CleanupStart(p, "stats", 0, None)

\* stats_collection.find_one({"_id": "global"})
StatsFind(p) ==
    /\ h[p].pc = "s_find"
    /\ h' = [h EXCEPT ![p].pc = "s_count",
                      ![p].ret = IF \E s \in stats : s.id = "global"
                                 THEN LET s == CHOOSE s \in stats : s.id = "global"
                                      IN  <<s.total_created, s.total_viewed>>
                                 ELSE <<0, 0>>]
    /\ UNCHANGED <<secrets, stats, now, env, history>>

\* secrets_collection.count_documents({}), then the response
StatsCount(p) ==
    /\ h[p].pc = "s_count"
    /\ h' = [h EXCEPT ![p].pc = "done", ![p].status = "Stats",
                      ![p].ret = Append(h[p].ret, Cardinality(secrets))]
    /\ UNCHANGED <<secrets, stats, now, env, history>>

\* -------------------------------------------------------- cleanup_expired
SweepStart(p) == CleanupStart(p, "cleanup", 0, None)

\* ---------------------------------------------------------- startup_event
\* stats_collection.find_one({"_id": "global"}) finds the document
HasGlobal == \E s \in stats : s.id = "global"

\* instance i has no process running
Stopped(i) == boot[i] \in {"down", "failed"}

\* the document written over the one that is there
StartupInsertUpsert(i) ==
    /\ boot[i] = "insert"
    /\ stats' = {[id |-> "global", total_created |-> 0, total_viewed |-> 0]}
    /\ boot' = [boot EXCEPT ![i] = "up"]
    /\ UNCHANGED <<secrets, now, h, history, key, boots>>

\* the process of instance i starts: the key is read from SECRET_ENCRYPTION_KEY
\* or generated (instances that run together are given the same key), then
\* startup_event makes the indexes and looks the stats document up
StartupFind(i) ==
    /\ Stopped(i)
    /\ boots < MaxBoots
    /\ key' \in IF \A j \in Insts : Stopped(j) THEN Keys ELSE {key}
    /\ boot' = [boot EXCEPT ![i] = IF HasGlobal THEN "up" ELSE "insert"]
    /\ boots' = boots + 1
    /\ UNCHANGED <<secrets, stats, now, h, serials, plain, delivered, requests,
                   createdOk, viewedOk>>

\* stats_collection.insert_one of the zeroed document; the store refuses a
\* second document with _id "global" and startup_event ends with that error
StartupInsert(i) ==
    /\ boot[i] = "insert"
    /\ IF HasGlobal
       THEN /\ boot' = [boot EXCEPT ![i] = "failed"]
            /\ UNCHANGED stats
       ELSE /\ boot' = [boot EXCEPT ![i] = "up"]
            /\ stats' = stats \cup
                          {[id |-> "global", total_created |-> 0, total_viewed |-> 0]}
    /\ UNCHANGED <<secrets, now, h, history, key, boots>>

\* instance i is stopped; the last one stops when its requests are served
Shutdown(i) ==
    /\ boot[i] = "up"
    /\ \/ \A p \in Procs : Quiet(p)
       \/ \E j \in Insts : j # i /\ boot[j] = "up"
    /\ boot' = [boot EXCEPT ![i] = "down"]
    /\ UNCHANGED <<secrets, stats, now, h, history, key, boots>>

Next ==
    \/ Tick
    \/ TTLMonitor
    \/ \E p \in Procs :
         \/ CreateCheckId(p)
         \/ CreateInsert(p)
         \/ CreateStats(p)
         \/ RetrieveStart(p)
         \/ CleanupDelete(p)
         \/ RetrieveFind(p)
         \/ RetrieveUpdate(p)
         \/ RetrieveStats(p)
         \/ InfoFind(p)
         \/ StatsStart(p)
         \/ StatsFind(p)
         \/ StatsCount(p)
         \/ SweepStart(p)

Spec == Init /\ [][Next]_vars

\* the store before the first deployment: no instance runs, no stats document
InitCold ==
    /\ secrets = {}
    /\ stats = {}
    /\ now = 0
    /\ h = [p \in Procs |-> Idle]
    /\ serials = 0
    /\ plain = <<>>
    /\ delivered = <<>>
    /\ requests = 0
    /\ createdOk = 0
    /\ viewedOk = 0
    /\ key = Key
    /\ boot = [i \in Insts |-> "down"]
    /\ boots = 0

\* instances starting and stopping while Creates and Retrieves are served
NextDeploy ==
    \/ \E i \in Insts :
         \/ StartupFind(i)
         \/ StartupInsert(i)
         \/ Shutdown(i)
    \/ \E p \in Procs :
         \/ CreateCheckId(p)
         \/ CreateInsert(p)
         \/ CreateStats(p)
         \/ RetrieveStart(p)
         \/ CleanupDelete(p)
         \/ RetrieveFind(p)
         \/ RetrieveUpdate(p)
         \/ RetrieveStats(p)

SpecDeploy == InitCold /\ [][NextDeploy]_vars

\* ------------------------------------------------------------------ claims
\* get_secret of handler p has looked its document up
Looked(p) == h[p].op = "retrieve" /\ h[p].pc \in {"r_update", "r_stats", "done"}

\* get_secret of handler p has passed its checks and holds the plaintext
Passed(p) ==
    /\ h[p].op = "retrieve"
    /\ \/ h[p].pc \in {"r_update", "r_stats"}
       \/ h[p].pc = "done" /\ h[p].status = "OK"

\* get_secret of handler p has returned the content
Returned(p) == h[p].op = "retrieve" /\ h[p].pc = "done" /\ h[p].status = "OK"

\* get_secret of handler p found a document that was pending when it was read
FoundPending(p) == Looked(p) /\ h[p].secret_doc # NoDoc /\ ~h[p].secret_doc.viewed

\* the password the secret of document doc was created with, when it has one
PasswordOf(doc) == plain[doc.serial].password

\* the secret of document doc was created protected, with a non-empty password
HasPassword(doc) == PasswordOf(doc) # None

\* C1: concurrent Retrieves of one pending secret: exactly one of them returns
\* the plaintext, in no interleaving do two calls both return it.
AtMostOneWinner == \A s \in 1..serials : delivered[s] <= 1

\* C2: a Retrieve whose lookup of the record happens after the record's
\* expires_at has passed never gets the content and ends with NotFound, also
\* when the expiry falls between the Retrieve's sweep and its lookup.
ExpiredRetrieveNotFound ==
    \A p \in Procs :
        (Looked(p) /\ h[p].late) => (h[p].pc = "done" /\ h[p].status = "NotFound")

\* C3: a Retrieve that starts after a Retrieve of the same secret has returned
\* its content never passes the checks: the record it finds gives AlreadyViewed
\* (and a record that is gone gives NotFound).
ViewedStaysViewed ==
    \A p \in Procs :
        /\ (Looked(p) /\ h[p].secret_doc # NoDoc /\ h[p].secret_doc.serial \in h[p].seen)
              => (h[p].pc = "done" /\ h[p].status = "AlreadyViewed")
        /\ (Looked(p) /\ h[p].secret_doc = NoDoc)
              => (h[p].pc = "done" /\ h[p].status = "NotFound")

ViewedStaysViewedWitness ==
    \E p \in Procs :
        /\ Looked(p) /\ h[p].secret_doc # NoDoc
        /\ h[p].secret_doc.serial \in h[p].seen
        /\ h[p].status = "AlreadyViewed"

\* C4: Create(C) then Retrieve returns content equal to C, and the secret's
\* content is returned exactly once.
RoundTripOnce ==
    \A p \in Procs :
        Returned(p) =>
            /\ h[p].content = plain[h[p].secret_doc.serial].content
            /\ delivered[h[p].secret_doc.serial] = 1

\* the equality half of C4 alone: what a Retrieve returns is the content given
\* to the Create that built the document
RoundTrip ==
    \A p \in Procs :
        Passed(p) => h[p].content = plain[h[p].secret_doc.serial].content

\* C5 as stated: on a pending secret created with password P, no password
\* gives PasswordRequired and any password other than P gives InvalidPassword.
PasswordGateAsStated ==
    \A p \in Procs :
        (FoundPending(p) /\ HasPassword(h[p].secret_doc)) =>
            /\ h[p].access_password = None
                  => (h[p].pc = "done" /\ h[p].status = "PasswordRequired")
            /\ (h[p].access_password # None
                    /\ h[p].access_password # PasswordOf(h[p].secret_doc))
                  => (h[p].pc = "done" /\ h[p].status = "InvalidPassword")

\* the outcomes of the password gate on a pending secret created with P
PasswordGateOutcome ==
    \A p \in Procs :
        (FoundPending(p) /\ HasPassword(h[p].secret_doc)) =>
            /\ h[p].access_password \in {None, <<>>}
                  => (h[p].pc = "done" /\ h[p].status = "PasswordRequired")
            /\ h[p].access_password \notin {None, <<>>, PasswordOf(h[p].secret_doc)}
                  => (h[p].pc = "done" /\ h[p].status = "InvalidPassword")
            /\ h[p].access_password = PasswordOf(h[p].secret_doc) => Passed(p)

\* a Retrieve with P that starts after the secret was returned fails
PasswordGateSecond ==
    \A p \in Procs :
        (Looked(p) /\ h[p].secret_doc # NoDoc /\ HasPassword(h[p].secret_doc)
            /\ h[p].secret_doc.serial \in h[p].seen
            /\ h[p].access_password = PasswordOf(h[p].secret_doc))
          => (h[p].pc = "done" /\ h[p].status = "AlreadyViewed")

\* the step in which a Retrieve is refused by the password gate changes nothing
PasswordGateFrame ==
    \A p \in Procs :
        (h[p].pc = "r_find" /\ h'[p].pc = "done"
            /\ h'[p].status \in {"PasswordRequired", "InvalidPassword"})
          => (secrets' = secrets /\ stats' = stats)

\* C5 (amended): on a pending secret created with password P, a Retrieve with
\* no password or an empty one gives PasswordRequired, one with a non-empty
\* password other than P gives InvalidPassword, neither changes the store, a
\* Retrieve with P passes, and a later Retrieve with P gives AlreadyViewed.
PasswordGate ==
    /\ [](PasswordGateOutcome /\ PasswordGateSecond)
    /\ [][PasswordGateFrame]_vars

PasswordGateWitness ==
    \E p, q \in Procs :
        /\ FoundPending(p) /\ HasPassword(h[p].secret_doc)
        /\ h[p].status = "InvalidPassword"
        /\ Returned(q)
        /\ h[q].secret_doc.serial = h[p].secret_doc.serial
        /\ h[q].access_password = PasswordOf(h[q].secret_doc)
        /\ \E d \in secrets : d.serial = h[q].secret_doc.serial /\ d.viewed

\* C6: with no operation in progress, total_created is the number of Creates
\* that returned and total_viewed the number of Retrieves that returned content.
StatsAccurate ==
    (\A p \in Procs : Quiet(p)) =>
        \A s \in stats : s.total_created = createdOk /\ s.total_viewed = viewedOk

StatsAccurateWitness ==
    /\ \A p \in Procs : Quiet(p)
    /\ createdOk >= 1 /\ viewedOk >= 1
    /\ \E p \in Procs : h[p].status = "DuplicateKey"
    /\ \E s \in stats : s.total_created = createdOk

\* C7: the sweep of cleanup_expired_secrets, whoever runs it, keeps every
\* record whose expires_at has not passed, unchanged.
SweepKeepsLiveStep ==
    \A p \in Procs :
        (h[p].pc = "cleanup" /\ h'[p].pc # "cleanup") =>
            \A d \in secrets : d.expires_at >= now => d \in secrets'

SweepKeepsLive == [][SweepKeepsLiveStep]_vars

SweepKeepsLiveWitness ==
    \E p \in Procs :
        /\ h[p].op = "cleanup" /\ h[p].pc = "done" /\ h[p].ret >= 1
        /\ \E d \in secrets : d.expires_at >= now

\* C8: the step of Info changes neither a record (its viewed flag, its content)
\* nor the counters, whatever the other handlers are doing.
InfoFrameStep ==
    \A p \in Procs :
        (h'[p] # h[p] /\ h'[p].op = "info") => (secrets' = secrets /\ stats' = stats)

InfoFrame == [][InfoFrameStep]_vars

InfoFrameWitness ==
    \E p, q \in Procs :
        /\ h[p].op = "info" /\ h[p].status = "Info" /\ ~h[p].secret_doc.viewed
        /\ Returned(q) /\ h[q].secret_doc.serial = h[p].secret_doc.serial

\* C9: a Retrieve that ends in NotFound, AlreadyViewed, PasswordRequired or
\* InvalidPassword changes no record and no counter in the step that refuses
\* it, and before that only its sweep removed records, all of them expired.
FailedRetrieveFrameStep ==
    \A p \in Procs :
        /\ (h[p].pc = "r_find" /\ h'[p].pc = "done"
               /\ h'[p].status \in {"NotFound", "AlreadyViewed",
                                    "PasswordRequired", "InvalidPassword"})
             => (secrets' = secrets /\ stats' = stats)
        /\ (h'[p] # h[p] /\ h'[p].op = "retrieve" /\ h'[p].pc = "cleanup")
             => (secrets' = secrets /\ stats' = stats)
        /\ (h[p].op = "retrieve" /\ h[p].pc = "cleanup" /\ h'[p].pc = "r_find")
             => /\ stats' = stats
                /\ secrets' \subseteq secrets
                /\ \A d \in secrets \ secrets' : d.expires_at < now

FailedRetrieveFrame == [][FailedRetrieveFrameStep]_vars

FailedRetrieveFrameWitness ==
    \E p \in Procs :
        /\ FoundPending(p) /\ h[p].status = "InvalidPassword"
        /\ \E d \in secrets : d.serial = h[p].secret_doc.serial /\ ~d.viewed
        /\ \A s \in 1..serials : delivered[s] = 0

\* C10: no read returns a record whose expires_at has passed; Info on an
\* expired record that is still in the store reports NotFound.
InfoHidesExpired ==
    \A p \in Procs : (h[p].op = "info" /\ h[p].late) => h[p].status = "NotFound"
\* a step in which handler p runs the delete_many of a sweep
SweepStep(p) == h[p].pc = "cleanup" /\ h'[p].pc # "cleanup"

\* C11: a Sweep leaves no record its filter matches, and a Sweep that finds the
\* store as such a Sweep left it (no record has expired since: none is older
\* than its current_time) returns deleted_count 0 and leaves the store as it is.
SweepTwiceStep ==
    \A p \in Procs :
        SweepStep(p) =>
            /\ \A d \in secrets' : ~(d.expires_at < h[p].current_time)
            /\ (\A d \in secrets : ~(d.expires_at < h[p].current_time))
                  => /\ secrets' = secrets
                     /\ h[p].op = "cleanup" => h'[p].ret = 0

SweepTwice == [][SweepTwiceStep]_vars

SweepTwiceWitness ==
    \E p, q \in Procs :
        /\ p # q
        /\ h[p].op = "cleanup" /\ h[p].pc = "done" /\ h[p].ret >= 1
        /\ h[q].op = "cleanup" /\ h[q].pc = "done" /\ h[q].ret = 0
        /\ secrets = {}

\* a create_secret is in progress
Creating(p) == h[p].pc \in {"c_find", "c_insert", "c_stats"}

\* C12: total_viewed counts each consumed secret once: it is at most the number
\* of secrets ever created (so at most the number of them that were consumed),
\* and at most total_created whenever no Create is in progress.
ViewedAtMostCreated ==
    \A s \in stats :
        /\ s.total_viewed <= serials
        /\ (\A p \in Procs : ~Creating(p)) => s.total_viewed <= s.total_created

\* C13: an insert that hits an existing id is retried with a new id and never
\* reported to the caller: no Create ends with the duplicate-key failure.
DuplicateRetried == \A p \in Procs : h[p].status # "DuplicateKey"

\* C14: no two records in the store have the same id.
UniqueIds ==
    \A d1, d2 \in secrets : d1.secret_id = d2.secret_id => d1 = d2

UniqueIdsWitness ==
    \E p \in Procs :
        /\ h[p].op = "create" /\ h[p].status = "DuplicateKey"
        /\ \E d \in secrets : d.secret_id = h[p].secret_id /\ d # h[p].secret_doc
        /\ Cardinality(secrets) = 1

\* C15: the id loop of Create makes at most a fixed number of attempts and then
\* fails explicitly: a Create that has made MaxAttempts colliding attempts has
\* ended in a failure.
IdLoopBounded ==
    \A p \in Procs :
        h[p].attempts >= MaxAttempts => (h[p].pc = "done" /\ h[p].status # "Created")

\* C16: the checks of Retrieve short-circuit in the order absent, consumed,
\* password: an absent record gives NotFound and a consumed one AlreadyViewed
\* whatever password is supplied; PasswordRequired and InvalidPassword are
\* given for pending records only, and PasswordRequired before InvalidPassword.
CheckOrder ==
    \A p \in Procs :
        Looked(p) =>
            /\ h[p].secret_doc = NoDoc => h[p].status = "NotFound"
            /\ (h[p].secret_doc # NoDoc /\ h[p].secret_doc.viewed)
                  => h[p].status = "AlreadyViewed"
            /\ h[p].status \in {"PasswordRequired", "InvalidPassword"}
                  => (h[p].secret_doc # NoDoc /\ ~h[p].secret_doc.viewed
                        /\ h[p].secret_doc.password_protected)
            /\ (FoundPending(p) /\ h[p].secret_doc.password_protected
                  /\ h[p].access_password \in {None, <<>>})
                  => h[p].status = "PasswordRequired"

CheckOrderWitness ==
    \E p \in Procs :
        /\ Looked(p) /\ h[p].secret_doc # NoDoc
        /\ h[p].secret_doc.viewed /\ h[p].secret_doc.password_protected
        /\ HasPassword(h[p].secret_doc)
        /\ h[p].access_password \notin {None, <<>>, PasswordOf(h[p].secret_doc)}
        /\ h[p].status = "AlreadyViewed"

\* get_secret of handler p found a pending document that is protected and
\* has no password hash
FoundUnlockable(p) ==
    /\ FoundPending(p)
    /\ h[p].secret_doc.password_protected
    /\ h[p].secret_doc.password_hash = NoHash

\* the secret was created protected with no password or an empty one
CreatedWithoutPassword(doc) ==
    doc # NoDoc /\ doc.password_protected /\ PasswordOf(doc) = None

\* C17 as stated: a secret created protected with no (or an empty) password is
\* stored protected with no hash; a Retrieve of it never returns the content,
\* with no password it gives PasswordRequired and with any supplied password
\* InvalidPassword.
NoHashNeverOpensAsStated ==
    /\ \A d \in secrets : CreatedWithoutPassword(d) => d.password_hash = NoHash
    /\ \A p \in Procs :
          FoundUnlockable(p) =>
              /\ ~Passed(p)
              /\ h[p].access_password = None => h[p].status = "PasswordRequired"
              /\ h[p].access_password # None => h[p].status = "InvalidPassword"

\* C17 (amended): such a secret is stored protected with no hash; a Retrieve of
\* it never returns the content, with no password or an empty one it gives
\* PasswordRequired and with any non-empty password InvalidPassword.
NoHashNeverOpens ==
    /\ \A d \in secrets : CreatedWithoutPassword(d) => d.password_hash = NoHash
    /\ \A p \in Procs :
          (Looked(p) /\ CreatedWithoutPassword(h[p].secret_doc)) => ~Passed(p)
    /\ \A p \in Procs :
          FoundUnlockable(p) =>
              /\ h[p].pc = "done"
              /\ h[p].access_password \in {None, <<>>}
                    => h[p].status = "PasswordRequired"
              /\ h[p].access_password \notin {None, <<>>}
                    => h[p].status = "InvalidPassword"

NoHashNeverOpensWitness ==
    \E p \in Procs :
        /\ FoundUnlockable(p) /\ CreatedWithoutPassword(h[p].secret_doc)
        /\ h[p].access_password \notin {None, <<>>}
        /\ h[p].status = "InvalidPassword"

\* C18: once a record's consumed flag is true the record is never written
\* again: it stays as it is until it is removed, and no Retrieve issues its
\* update on a record that is already consumed.
ConsumedNeverWrittenStep ==
    /\ \A d \in secrets :
          d.viewed => (d \in secrets' \/ \A e \in secrets' : e.serial # d.serial)
    /\ \A p \in Procs :
          (h[p].pc = "r_update" /\ h'[p].pc = "r_stats") =>
              \A d \in secrets : d.secret_id = h[p].secret_id => ~d.viewed

ConsumedNeverWritten == [][ConsumedNeverWrittenStep]_vars

\* the step on which get_secret of handler p ends with "Failed to decrypt secret"
DecryptFails(p) ==
    h[p].pc = "r_find" /\ h'[p].pc = "done" /\ h'[p].status = "DecryptFailed"

DecryptFailureFrameStep ==
    \A p \in Procs : DecryptFails(p) =>
        /\ secrets' = secrets
        /\ stats' = stats
        /\ h'[p].secret_doc \in secrets'
        /\ ~h'[p].secret_doc.viewed
        /\ h'[p].content = <<>>

\* get_secret is at update_one or at the $inc only with the whole content
DecryptedBeforeMarked ==
    \A p \in Procs : h[p].pc \in {"r_update", "r_stats"} =>
        /\ h[p].content # DecryptFailed
        /\ h[p].content = plain[h[p].secret_doc.serial].content

\* C19: get_secret decrypts before update_one and before the $inc of
\* total_viewed: the step on which a get_secret ends with a decryption failure
\* changes no document and no counter, the document it found is still in the
\* store and not viewed, and the response holds no content; a get_secret that
\* is at update_one or at the $inc holds the whole content
DecryptFailureFrame == []DecryptedBeforeMarked /\ [][DecryptFailureFrameStep]_vars

DecryptFailureFrameWitness ==
    \E p \in Procs :
        /\ h[p].op = "retrieve" /\ h[p].pc = "done" /\ h[p].status = "DecryptFailed"
        /\ h[p].secret_doc \in secrets
        /\ ~h[p].secret_doc.viewed
        /\ stats = {[id |-> "global", total_created |-> 1, total_viewed |-> 0]}

\* a step of startup_event
StartupStep == boot' # boot

StartupKeepsStatsStep ==
    /\ StartupStep => (stats = {} \/ stats' = stats)
    /\ \A s \in stats : \E t \in stats' :
           /\ t.id = s.id
           /\ t.total_created >= s.total_created
           /\ t.total_viewed >= s.total_viewed

OneStatsDoc ==
    /\ Cardinality(stats) <= 1
    /\ (\E i \in Insts : boot[i] \in {"up", "failed"}) => Cardinality(stats) = 1

\* C20: startup_event run again, by instances starting together and after
\* create_secret and get_secret calls, leaves one stats document: there is
\* never more than one, there is one once a startup_event has ended, a step of
\* startup_event changes no stats document that is there, and no step lowers
\* total_created or total_viewed
StartupIdempotent == []OneStatsDoc /\ [][StartupKeepsStatsStep]_vars

StartupIdempotentWitness ==
    /\ \E i, j \in Insts : boot[i] = "up" /\ boot[j] = "failed"
    /\ boots >= 2
    /\ stats = {[id |-> "global", total_created |-> 1, total_viewed |-> 1]}
====
